---- MODULE Spec2Model ----
(***************************************************************************)
(* Model of the real-time fan-out engine of rusty_exchange_dashboard:      *)
(*   - redis_pump (src/src/main.rs) reads the upstream "market_data"       *)
(*     channel, routes each document by its "instrument" field and sends   *)
(*     the SSE frame on that instrument's tokio broadcast channel;         *)
(*   - sse_handler (src/src/sse.rs) subscribes one receiver per request    *)
(*     and writes one wire frame per recv() result.                        *)
(* The broadcast channel is modelled as the ring buffer the calls          *)
(* broadcast::channel / Sender::send / Sender::subscribe / Receiver::recv  *)
(* operate on: a tail position, one slot per capacity unit holding the     *)
(* position and value last written, and the receiver count.                *)
(* Positions are u64 in the program; 2^64 sends are out of reach, so they  *)
(* are unbounded integers here.                                            *)
(***************************************************************************)
EXTENDS Integers, Sequences, FiniteSets, TLC

\* ---------------------------------------------------------------- bounds

\* log2 of the channel capacity. The program's capacity is 512 = 2^9
\* (main.rs:123); the model keeps it a power of two, scaled down, so that
\* the buffer length broadcast::channel rounds the capacity up to is the
\* capacity itself, as in the program.
CapacityLog2 == 0

\* Number of routable upstream documents the pump is given in one behaviour
\* (documents it has to drop come in any number).
MaxDocs == 3

\* Number of stream requests (one session each).
MaxSessions == 2

\* -------------------------------------------------------------- constants

Capacity == 2 ^ CapacityLog2

\* instruments loaded at start-up: the keys of instrument_tx
Instruments == {"X", "Y"}

\* an instrument name that is not in the registry
UnknownInstrument == "Z"

Sessions == 1 .. MaxSessions

\* ---------------------------------------------------------- upstream data

\* What an upstream message's "instrument" member can be.
NoInstrument == "<absent>"
NumberInstrument == "<number>"
InstrumentFields == Instruments \cup {UnknownInstrument, NoInstrument, NumberInstrument}

\* An upstream message. kind is what its payload is:
\*   "binary"    not valid UTF-8            (get_payload::<String> fails)
\*   "text"      a string that is no JSON   (serde_json::from_str fails)
\*   "scalar"    JSON, but not an object    (get("instrument") is None)
\*   "object"    a JSON object
\* seq stands for the rest of the document (price, volume, ...): the serial
\* number of a routable document, so that no two of them are equal; 0 in a
\* document the pump cannot route.
DocKinds == {"binary", "text", "scalar", "object"}

Doc(kind, inst, seq) == [kind |-> kind, inst |-> inst, seq |-> seq]

NoDoc == Doc("none", NoInstrument, 0)

NoJson == [shape |-> "none", inst |-> NoInstrument, seq |-> 0]

\* msg.get_payload::<String>()
GetPayloadOk(doc) == doc.kind # "binary"

\* serde_json::from_str::<serde_json::Value>(&payload)
FromStrOk(doc) == doc.kind \in {"scalar", "object"}

\* The parsed serde_json::Value.
FromStr(doc) ==
    IF doc.kind = "scalar"
    THEN [shape |-> "scalar", inst |-> NoInstrument, seq |-> doc.seq]
    ELSE [shape |-> "object", inst |-> doc.inst, seq |-> doc.seq]

\* json_data.get("instrument").and_then(|v| v.as_str()): Some(name) or None
InstrumentName(json) ==
    IF json.shape = "object" /\ json.inst \notin {NoInstrument, NumberInstrument}
    THEN json.inst
    ELSE NoInstrument

\* create_instrument_channels(&instruments): one channel of its own for each
\* key of the instruments map, collected into a HashMap from the key to the
\* channel's Sender. A channel is named here by the key it was created for.
CreateInstrumentChannels(instruments) == [name \in instruments |-> name]

\* the registry main builds once and hands, cloned, to AppState and the pump
instrument_tx == CreateInstrumentChannels(Instruments)

\* A registry whose keys all hold clones of one and the same Sender.
GetShared(name) ==
    IF name \in DOMAIN instrument_tx THEN instrument_tx["X"] ELSE NoInstrument

\* instrument_tx.get(name): Some(channel), or None (NoInstrument)
Get(name) ==
    IF name \in DOMAIN instrument_tx THEN instrument_tx[name] ELSE NoInstrument

\* Route with a fallback channel for names the registry does not know.
RouteWrongDefault(doc) ==
    IF GetPayloadOk(doc) /\ FromStrOk(doc)
    THEN IF InstrumentName(FromStr(doc)) \in Instruments
         THEN InstrumentName(FromStr(doc))
         ELSE "X"
    ELSE NoInstrument

\* instrument_tx.get(instrument_name) of the pump, from the raw message:
\* the registry key the message is routed to, or NoInstrument when dropped.
Route(doc) ==
    IF GetPayloadOk(doc) /\ FromStrOk(doc)
    THEN Get(InstrumentName(FromStr(doc)))
    ELSE NoInstrument

\* ------------------------------------------------------------ wire frames

NoFrame == [type |-> "none", json |-> NoJson, lagged |-> 0]

\* format!("data: {}\n\n", serde_json::to_string(&json_data)?)
SseMessage(json) == [type |-> "data", json |-> json, lagged |-> 0]

\* format!("event: warn\ndata: {{\"lagged\": {}}}\n\n", skipped)
WarnMessage(skipped) == [type |-> "warn", json |-> NoJson, lagged |-> skipped]

\* the keep-alive comment frame, b": keep-alive\n\n"
HeartbeatMessage == [type |-> "heartbeat", json |-> NoJson, lagged |-> 0]

\* ------------------------------------------------------------------ state

VARIABLES
    connOpen,     \* the pump's connection (conn / pubsub) is established and healthy
    pumpPc,       \* where redis_pump is
    msg,          \* the message the pump holds between get_message and the end of the loop body
    pos,          \* per instrument: tail position of the channel
    buffer,       \* per instrument: slot index -> [pos, val]
    rxCnt,        \* per instrument: number of live receivers
    sess,         \* per session: [st, key, next]
    wire,         \* per session: the frames written to its response, in order
    subAt,        \* per session: number of sends on its channel before it subscribed (history)
    published     \* per instrument: every frame handed to tx.send, in order (history)

vars == <<connOpen, pumpPc, msg, pos, buffer, rxCnt, sess, wire, subAt, published>>

pumpVars == <<connOpen, pumpPc, msg>>
topicVars == <<pos, buffer, rxCnt>>
sessVars == <<sess, wire, subAt>>

NoSession == [st |-> "idle", key |-> NoInstrument, next |-> 0]

\* broadcast::channel(capacity): slot i starts at position i - capacity, empty;
\* the receiver the constructor returns is dropped at once (`_rx`).
Init ==
    /\ connOpen = FALSE
    /\ pumpPc = "Connecting"
    /\ msg = NoDoc
    /\ pos = [k \in Instruments |-> 0]
    /\ buffer = [k \in Instruments |->
                    [i \in 0 .. Capacity - 1 |-> [pos |-> i - Capacity, val |-> NoFrame]]]
    /\ rxCnt = [k \in Instruments |-> 0]
    /\ sess = [s \in Sessions |-> NoSession]
    /\ wire = [s \in Sessions |-> << >>]
    /\ subAt = [s \in Sessions |-> 0]
    /\ published = [k \in Instruments |-> << >>]

\* ------------------------------------------------------ broadcast channel

\* A channel whose only Senders are the ones moved into the pump task.
TxCntPumpOnly(k) == IF pumpPc = "Stopped" THEN 0 ELSE 1

\* The live Senders of channel k: the one in the registry clone that AppState
\* holds for as long as the HTTP server runs, and the one in the registry
\* moved into redis_pump, dropped when that task returns.
TxCnt(k) == 1 + (IF pumpPc = "Stopped" THEN 0 ELSE 1)

\* Send on a queue that keeps what is unread and drops the new frame when
\* some receiver still has the slot at the tail ahead of it.
SendDropNewest(k, frame) ==
    IF \/ rxCnt[k] = 0
       \/ \E s \in Sessions :
            /\ sess[s].st = "streaming" /\ sess[s].key = k
            /\ pos[k] - sess[s].next >= Capacity
    THEN UNCHANGED <<pos, buffer>>
    ELSE /\ buffer' = [buffer EXCEPT ![k][pos[k] % Capacity] =
                            [pos |-> pos[k], val |-> frame]]
         /\ pos' = [pos EXCEPT ![k] = pos[k] + 1]

\* Sender::send(value) at main.rs:151. With no live receiver it returns Err
\* and stores nothing (the pump ignores the result); otherwise it writes
\* the slot at the tail, overwriting the oldest one, and advances the tail.
\* It takes no await: nothing in it waits for a receiver.
Send(k, frame) ==
    IF rxCnt[k] = 0
    THEN UNCHANGED <<pos, buffer>>
    ELSE /\ buffer' = [buffer EXCEPT ![k][pos[k] % Capacity] =
                            [pos |-> pos[k], val |-> frame]]
         /\ pos' = [pos EXCEPT ![k] = pos[k] + 1]

\* RecvRef counting every unread position as skipped and jumping to the tail.
RecvRefToTail(k, next) ==
    LET slot == buffer[k][next % Capacity]
    IN  IF slot.pos = next
        THEN [res |-> "ok", val |-> slot.val, next |-> next + 1, missed |-> 0]
        ELSE IF slot.pos + Capacity = next
        THEN [res |-> "empty", val |-> NoFrame, next |-> next, missed |-> 0]
        ELSE [res |-> "lagged", val |-> NoFrame, next |-> pos[k], missed |-> pos[k] - next]

\* RecvRef reporting the skipped positions one short.
RecvRefOffByOne(k, next) ==
    LET slot == buffer[k][next % Capacity]
        oldest == pos[k] - Capacity
        missed == oldest - next
    IN  IF slot.pos = next
        THEN [res |-> "ok", val |-> slot.val, next |-> next + 1, missed |-> 0]
        ELSE IF slot.pos + Capacity = next
        THEN [res |-> "empty", val |-> NoFrame, next |-> next, missed |-> 0]
        ELSE IF missed = 1
        THEN [res |-> "ok", val |-> buffer[k][oldest % Capacity].val,
              next |-> oldest + 1, missed |-> 0]
        ELSE [res |-> "lagged", val |-> NoFrame, next |-> oldest, missed |-> missed - 1]

\* RecvRef that, when lagging, leaves the cursor one past the oldest retained
\* position while it reports the evicted ones only.
RecvRefSkipsOldest(k, next) ==
    LET slot == buffer[k][next % Capacity]
        oldest == pos[k] - Capacity
        missed == oldest - next
    IN  IF slot.pos = next
        THEN [res |-> "ok", val |-> slot.val, next |-> next + 1, missed |-> 0]
        ELSE IF slot.pos + Capacity = next
        THEN [res |-> IF TxCnt(k) = 0 THEN "closed" ELSE "empty",
              val |-> NoFrame, next |-> next, missed |-> 0]
        ELSE IF missed = 0
        THEN [res |-> "ok", val |-> slot.val, next |-> next + 1, missed |-> 0]
        ELSE [res |-> "lagged", val |-> NoFrame, next |-> oldest + 1, missed |-> missed]

\* Receiver::recv() at sse.rs:32, for a receiver of channel k whose cursor
\* is next: what it returns and where it leaves the cursor.
\*   "ok"      the slot at the cursor still holds position next
\*   "empty"   the cursor is at the tail: recv stays suspended
\*   "closed"  the cursor is at the tail and no Sender is left
\*   "lagged"  the slot was overwritten: the cursor moves to the oldest
\*             retained position and the number of skipped ones is returned
RecvRef(k, next) ==
    LET slot == buffer[k][next % Capacity]
        oldest == pos[k] - Capacity
        missed == oldest - next
    IN  IF slot.pos = next
        THEN [res |-> "ok", val |-> slot.val, next |-> next + 1, missed |-> 0]
        ELSE IF slot.pos + Capacity = next
        THEN [res |-> IF TxCnt(k) = 0 THEN "closed" ELSE "empty",
              val |-> NoFrame, next |-> next, missed |-> 0]
        ELSE IF missed = 0
        THEN [res |-> "ok", val |-> slot.val, next |-> next + 1, missed |-> 0]
        ELSE [res |-> "lagged", val |-> NoFrame, next |-> oldest, missed |-> missed]

\* ------------------------------------------------------------- redis_pump

\* number of routable documents received so far
NumRouted ==
    Len(published["X"]) + Len(published["Y"])
        + (IF pumpPc = "Handling" /\ Route(msg) # NoInstrument THEN 1 ELSE 0)

\* The messages the upstream channel can carry: the ones the pump cannot
\* route, one for each way of failing, ...
DroppedDocs ==
    {Doc("binary", NoInstrument, 0), Doc("text", NoInstrument, 0),
     Doc("scalar", NoInstrument, 0), Doc("object", NoInstrument, 0),
     Doc("object", NumberInstrument, 0), Doc("object", UnknownInstrument, 0)}

\* ... and the next routable one for each instrument.
RoutableDocs ==
    IF NumRouted < MaxDocs
    THEN {Doc("object", k, NumRouted + 1) : k \in Instruments}
    ELSE {}

NextDocs == DroppedDocs \cup RoutableDocs

\* redis_client.get_connection()? : an error returns from redis_pump
PumpConnect ==
    /\ pumpPc = "Connecting"
    /\ \/ connOpen' = TRUE /\ pumpPc' = "Subscribing"
       \/ connOpen' = FALSE /\ pumpPc' = "Stopped"
    /\ UNCHANGED <<msg, topicVars, sessVars, published>>

\* pubsub.subscribe("market_data")? : an error returns from redis_pump
PumpSubscribe ==
    /\ pumpPc = "Subscribing"
    /\ pumpPc' = IF connOpen THEN "Consuming" ELSE "Stopped"
    /\ UNCHANGED <<connOpen, msg, topicVars, sessVars, published>>

\* pubsub.get_message() returns Ok(msg)
PumpGetMessage(doc) ==
    /\ pumpPc = "Consuming"
    /\ connOpen
    /\ doc \in NextDocs
    /\ msg' = doc
    /\ pumpPc' = "Handling"
    /\ UNCHANGED <<connOpen, topicVars, sessVars, published>>

\* PumpHandle with a send that waits for room, as a bounded queue would.
PumpHandleBlocking ==
    /\ pumpPc = "Handling"
    /\ IF Route(msg) # NoInstrument
       THEN /\ \A s \in Sessions :
                    sess[s].st = "streaming" /\ sess[s].key = Route(msg)
                        => pos[Route(msg)] - sess[s].next < Capacity
            /\ Send(Route(msg), SseMessage(FromStr(msg)))
            /\ published' = [published EXCEPT ![Route(msg)] =
                                Append(@, SseMessage(FromStr(msg)))]
       ELSE UNCHANGED <<pos, buffer, published>>
    /\ pumpPc' = "Consuming"
    /\ msg' = NoDoc
    /\ UNCHANGED <<connOpen, rxCnt, sessVars>>

\* PumpHandle sending the frame twice.
PumpHandleDuplicate ==
    /\ pumpPc = "Handling"
    /\ IF Route(msg) # NoInstrument
       THEN /\ Send(Route(msg), SseMessage(FromStr(msg)))
            /\ published' = [published EXCEPT ![Route(msg)] =
                                Append(Append(@, SseMessage(FromStr(msg))),
                                       SseMessage(FromStr(msg)))]
       ELSE UNCHANGED <<pos, buffer, published>>
    /\ pumpPc' = "Consuming"
    /\ msg' = NoDoc
    /\ UNCHANGED <<connOpen, rxCnt, sessVars>>

\* PumpHandle that sends the frame on every channel of the registry.
PumpHandleBroadcast ==
    /\ pumpPc = "Handling"
    /\ IF Route(msg) # NoInstrument
       THEN /\ buffer' = [k \in Instruments |->
                    IF rxCnt[k] = 0 THEN buffer[k]
                    ELSE [buffer[k] EXCEPT ![pos[k] % Capacity] =
                            [pos |-> pos[k], val |-> SseMessage(FromStr(msg))]]]
            /\ pos' = [k \in Instruments |->
                    IF rxCnt[k] = 0 THEN pos[k] ELSE pos[k] + 1]
            /\ published' = [k \in Instruments |->
                    Append(published[k], SseMessage(FromStr(msg)))]
       ELSE UNCHANGED <<pos, buffer, published>>
    /\ pumpPc' = "Consuming"
    /\ msg' = NoDoc
    /\ UNCHANGED <<connOpen, rxCnt, sessVars>>

\* The Ok(msg) arm: parse, route, send, and back to the top of the loop.
\* (The `?` on serde_json::to_string cannot fire: a serde_json::Value that
\* from_str produced always serializes.)
PumpHandle ==
    /\ pumpPc = "Handling"
    /\ IF Route(msg) # NoInstrument
       THEN /\ Send(Route(msg), SseMessage(FromStr(msg)))
            /\ published' = [published EXCEPT ![Route(msg)] =
                                Append(@, SseMessage(FromStr(msg)))]
       ELSE UNCHANGED <<pos, buffer, published>>
    /\ pumpPc' = "Consuming"
    /\ msg' = NoDoc
    /\ UNCHANGED <<connOpen, rxCnt, sessVars>>

\* pubsub.get_message() returns Err: a broken connection, or any other
\* read error on a healthy one
PumpReadError ==
    /\ pumpPc = "Consuming"
    /\ pumpPc' = "Sleeping"
    /\ UNCHANGED <<connOpen, msg, topicVars, sessVars, published>>

\* the 100 ms sleep is over: back to get_message on the same pubsub
PumpWake ==
    /\ pumpPc = "Sleeping"
    /\ pumpPc' = "Consuming"
    /\ UNCHANGED <<connOpen, msg, topicVars, sessVars, published>>

\* The pump's connection to the Redis server breaks; nothing in redis_pump
\* opens another one, so it stays broken. The pump sees the break at its
\* next call on the connection only (subscribe or get_message), so a break
\* while it handles a message or sleeps is the same as one seen at that call.
ConnectionDrop ==
    /\ connOpen
    /\ pumpPc \in {"Subscribing", "Consuming"}
    /\ connOpen' = FALSE
    /\ UNCHANGED <<pumpPc, msg, topicVars, sessVars, published>>

\* ------------------------------------------------------------ sse_handler

\* SseRequest with a receiver that starts at the oldest retained position.
SseRequestFromOldest(s, instrument) ==
    /\ sess[s].st = "idle"
    /\ \A t \in Sessions : t < s => sess[t].st # "idle"
    /\ IF instrument \in Instruments
       THEN /\ sess' = [sess EXCEPT ![s] =
                    [st |-> "streaming", key |-> instrument,
                     next |-> IF pos[instrument] > Capacity
                              THEN pos[instrument] - Capacity ELSE 0]]
            /\ rxCnt' = [rxCnt EXCEPT ![instrument] = @ + 1]
            /\ subAt' = [subAt EXCEPT ![s] = Len(published[instrument])]
       ELSE /\ sess' = [sess EXCEPT ![s] =
                    [st |-> "notfound", key |-> NoInstrument, next |-> 0]]
            /\ UNCHANGED <<rxCnt, subAt>>
    /\ UNCHANGED <<pumpVars, pos, buffer, wire, published>>

\* SseRequest that subscribes before it looks at the result of the lookup,
\* on the first channel when there is none for the key.
SseRequestSubscribesAnyway(s, instrument) ==
    /\ sess[s].st = "idle"
    /\ \A t \in Sessions : t < s => sess[t].st # "idle"
    /\ IF Get(instrument) # NoInstrument
       THEN /\ sess' = [sess EXCEPT ![s] =
                    [st |-> "streaming", key |-> Get(instrument),
                     next |-> pos[Get(instrument)]]]
            /\ rxCnt' = [rxCnt EXCEPT ![Get(instrument)] = @ + 1]
            /\ subAt' = [subAt EXCEPT ![s] = Len(published[Get(instrument)])]
       ELSE /\ sess' = [sess EXCEPT ![s] =
                    [st |-> "notfound", key |-> NoInstrument, next |-> 0]]
            /\ rxCnt' = [rxCnt EXCEPT !["X"] = @ + 1]
            /\ UNCHANGED subAt
    /\ UNCHANGED <<pumpVars, pos, buffer, wire, published>>

\* GET /sse/{instrument}: look the channel up; 404 when there is none,
\* otherwise tx.subscribe(): a receiver whose cursor is the tail.
\* Sessions are numbered in the order their requests arrive.
SseRequest(s, instrument) ==
    /\ sess[s].st = "idle"
    /\ \A t \in Sessions : t < s => sess[t].st # "idle"
    /\ IF Get(instrument) # NoInstrument
       THEN /\ sess' = [sess EXCEPT ![s] =
                    [st |-> "streaming", key |-> Get(instrument),
                     next |-> pos[Get(instrument)]]]
            /\ rxCnt' = [rxCnt EXCEPT ![Get(instrument)] = @ + 1]
            /\ subAt' = [subAt EXCEPT ![s] = Len(published[Get(instrument)])]
       ELSE /\ sess' = [sess EXCEPT ![s] =
                    [st |-> "notfound", key |-> NoInstrument, next |-> 0]]
            /\ UNCHANGED <<rxCnt, subAt>>
    /\ UNCHANGED <<pumpVars, pos, buffer, wire, published>>

\* SseRecv that takes the frame but never yields it.
SseRecvNoYield(s) ==
    /\ sess[s].st = "streaming"
    /\ LET r == RecvRef(sess[s].key, sess[s].next)
       IN  /\ r.res # "empty"
           /\ sess' = [sess EXCEPT ![s].next = r.next]
           /\ wire' = [wire EXCEPT ![s] =
                    IF r.res = "ok" THEN @ ELSE Append(@, WarnMessage(r.missed))]
    /\ UNCHANGED <<pumpVars, topicVars, subAt, published>>

\* SseRecv on a queue whose entries go to one consumer only: a receive
\* moves every cursor of the channel that stood at the same position.
SseRecvSharedCursor(s) ==
    /\ sess[s].st = "streaming"
    /\ LET r == RecvRef(sess[s].key, sess[s].next)
       IN  /\ r.res # "empty"
           /\ sess' = [t \in Sessions |->
                    IF /\ sess[t].st = "streaming"
                       /\ sess[t].key = sess[s].key
                       /\ sess[t].next = sess[s].next
                    THEN [sess[t] EXCEPT !.next = r.next]
                    ELSE sess[t]]
           /\ wire' = [wire EXCEPT ![s] =
                    Append(@, IF r.res = "ok" THEN r.val ELSE WarnMessage(r.missed))]
    /\ UNCHANGED <<pumpVars, topicVars, subAt, published>>

\* SseRecv that writes one notification for each skipped frame instead of
\* one notification carrying their number.
SseRecvWarnPerFrame(s) ==
    /\ sess[s].st = "streaming"
    /\ LET r == RecvRef(sess[s].key, sess[s].next)
       IN  /\ r.res # "empty"
           /\ IF r.res = "closed"
              THEN /\ sess' = [sess EXCEPT ![s] =
                            [st |-> "closed", key |-> NoInstrument, next |-> 0]]
                   /\ rxCnt' = [rxCnt EXCEPT ![sess[s].key] = @ - 1]
                   /\ UNCHANGED wire
              ELSE /\ sess' = [sess EXCEPT ![s].next = r.next]
                   /\ wire' = [wire EXCEPT ![s] =
                            IF r.res = "ok" THEN Append(@, r.val)
                            ELSE @ \o [i \in 1 .. r.missed |-> WarnMessage(1)]]
                   /\ UNCHANGED rxCnt
    /\ UNCHANGED <<pumpVars, pos, buffer, subAt, published>>

\* One turn of the stream! loop: recv() returns and its result is yielded,
\* or, for Closed, the loop is left: the stream ends and drops its receiver.
SseRecv(s) ==
    /\ sess[s].st = "streaming"
    /\ LET r == RecvRef(sess[s].key, sess[s].next)
       IN  /\ r.res # "empty"
           /\ IF r.res = "closed"
              THEN /\ sess' = [sess EXCEPT ![s] =
                            [st |-> "closed", key |-> NoInstrument, next |-> 0]]
                   /\ rxCnt' = [rxCnt EXCEPT ![sess[s].key] = @ - 1]
                   /\ UNCHANGED wire
              ELSE /\ sess' = [sess EXCEPT ![s].next = r.next]
                   /\ wire' = [wire EXCEPT ![s] =
                            Append(@, IF r.res = "ok" THEN r.val
                                      ELSE WarnMessage(r.missed))]
                   /\ UNCHANGED rxCnt
    /\ UNCHANGED <<pumpVars, pos, buffer, subAt, published>>

\* SseDisconnect that leaves the receiver registered with the channel.
SseDisconnectLeak(s) ==
    /\ sess[s].st = "streaming"
    /\ sess' = [sess EXCEPT ![s] = [st |-> "ended", key |-> NoInstrument, next |-> 0]]
    /\ wire' = [wire EXCEPT ![s] = << >>]
    /\ subAt' = [subAt EXCEPT ![s] = 0]
    /\ UNCHANGED <<pumpVars, topicVars, published>>

\* The peer goes away: the response stream, and the receiver in it, is
\* dropped; what the session had written goes with the connection.
SseDisconnect(s) ==
    /\ sess[s].st = "streaming"
    /\ rxCnt' = [rxCnt EXCEPT ![sess[s].key] = @ - 1]
    /\ sess' = [sess EXCEPT ![s] = [st |-> "ended", key |-> NoInstrument, next |-> 0]]
    /\ wire' = [wire EXCEPT ![s] = << >>]
    /\ subAt' = [subAt EXCEPT ![s] = 0]
    /\ UNCHANGED <<pumpVars, pos, buffer, published>>

\* ---------------------------------------------------------- specification

Next ==
    \/ PumpConnect
    \/ PumpSubscribe
    \/ \E doc \in NextDocs : PumpGetMessage(doc)
    \/ PumpHandle
    \/ PumpReadError
    \/ PumpWake
    \/ ConnectionDrop
    \/ \E s \in Sessions, instrument \in Instruments \cup {UnknownInstrument} :
            SseRequest(s, instrument)
    \/ \E s \in Sessions : SseRecv(s)
    \/ \E s \in Sessions : SseDisconnect(s)

Spec == Init /\ [][Next]_vars

\* The steps the program takes on its own are taken once they can be: the
\* runtime keeps polling the pump task and every session's stream. When the
\* next upstream message or read error comes, and what peers do, is not the
\* program's to decide.
FairSpec ==
    /\ Spec
    /\ WF_vars(PumpConnect)
    /\ WF_vars(PumpSubscribe)
    /\ WF_vars(PumpHandle)
    /\ WF_vars(PumpWake)
    /\ \A s \in Sessions : WF_vars(SseRecv(s))

\* ------------------------------------------- what the histories say

RECURSIVE LaggedSum(_)
\* the sum of the counts of the lag notifications in a sequence of wire frames
LaggedSum(w) ==
    IF w = << >> THEN 0 ELSE w[1].lagged + LaggedSum(Tail(w))

IsData(f) == f.type = "data"
IsWarn(f) == f.type = "warn"

Streaming(s) == sess[s].st = "streaming"

\* the frames sent on session s's channel since it subscribed, in send order
Since(s) ==
    SubSeq(published[sess[s].key], subAt[s] + 1, Len(published[sess[s].key]))

\* how many of them the first n items on the wire account for: one per
\* data frame, and the count of each lag notification
ConsumedBy(s, n) ==
    Len(SelectSeq(SubSeq(wire[s], 1, n), IsData)) + LaggedSum(SubSeq(wire[s], 1, n))

Consumed(s) == ConsumedBy(s, Len(wire[s]))

\* how many are still ahead of the session
Unread(s) == Len(Since(s)) - Consumed(s)

\* the frames channel k still holds
Retained(k) == {buffer[k][i].val : i \in 0 .. Capacity - 1} \ {NoFrame}

\* how many of the frames ahead of the session the channel no longer holds
EvictedUnread(s) ==
    Cardinality({i \in 1 .. Len(Since(s)) :
                    i > Consumed(s) /\ Since(s)[i] \notin Retained(sess[s].key)})

\* session s's stream wrote one more frame in this step
Received(s) ==
    /\ Streaming(s)
    /\ sess'[s].st = "streaming"
    /\ Len(wire'[s]) = Len(wire[s]) + 1

NoLagOnWire(s) == \A i \in 1 .. Len(wire[s]) : IsData(wire[s][i])

\* ----------------------------------------------------------------- claims

C2_LagCountExact ==
    /\ [](\A s \in Sessions :
            Streaming(s) /\ Unread(s) > Capacity =>
                EvictedUnread(s) = Unread(s) - Capacity)
    /\ [][\A s \in Sessions :
            Received(s) /\ EvictedUnread(s) > 0 =>
                wire'[s] = Append(wire[s], WarnMessage(EvictedUnread(s)))]_vars

\* capacity + 1 sends, no read, then one receive: Lagged(1)
C2_Witness ==
    \E s \in Sessions :
        /\ Streaming(s)
        /\ Len(Since(s)) = Capacity + 1
        /\ wire[s] = <<WarnMessage(1)>>

\* C3 as stated: after a lag notification the session is still streaming and
\* its cursor is at the channel's tail: nothing sent before is ahead of it.
C3_ResumesAtTail ==
    [][\A s \in Sessions :
        Received(s) /\ IsWarn(wire'[s][Len(wire'[s])]) =>
            Unread(s)' = 0]_vars

\* C3, amended: after a lag notification the session is still streaming and
\* resumes at the oldest frame the channel retains: exactly `capacity` frames
\* are ahead of it and the channel holds them all; and every data frame on a
\* session's wire is the frame at the position the earlier items account
\* for, the next receive being ready whenever frames are ahead.
C3_ResumesAtOldest ==
    /\ [][\A s \in Sessions :
            Streaming(s) /\ Len(wire'[s]) = Len(wire[s]) + 1
                /\ IsWarn(wire'[s][Len(wire'[s])]) =>
                    /\ sess'[s].st = "streaming"
                    /\ Unread(s)' = Capacity
                    /\ EvictedUnread(s)' = 0]_vars
    /\ [](\A s \in Sessions :
            Streaming(s) =>
                /\ Unread(s) > 0 => ENABLED SseRecv(s)
                /\ \A i \in 1 .. Len(wire[s]) :
                        IsData(wire[s][i]) =>
                            /\ ConsumedBy(s, i) <= Len(Since(s))
                            /\ wire[s][i] = Since(s)[ConsumedBy(s, i)])

\* a session was told Lagged(1) and then received the two retained frames,
\* both sent before the notification
C3_Witness ==
    \E s \in Sessions :
        /\ Streaming(s)
        /\ Len(Since(s)) = Capacity + 1
        /\ Len(wire[s]) = Capacity + 1
        /\ wire[s][1] = WarnMessage(1)
        /\ \A i \in 2 .. Capacity + 1 : wire[s][i] = Since(s)[i]

\* C4: whenever the pump holds a message, its step that handles it (the send
\* included) is enabled, whoever is subscribed and however far behind.
C4_PublishNeverBlocks ==
    pumpPc = "Handling" => ENABLED PumpHandle

\* the pump is about to send on a channel one of whose receivers has not read
\* any of the `capacity` frames the channel holds, while the other channel has
\* no receiver at all
C4_Witness ==
    /\ pumpPc = "Handling"
    /\ msg.kind = "object" /\ msg.inst \in Instruments
    /\ \E s \in Sessions :
        Streaming(s) /\ sess[s].key = msg.inst /\ Unread(s) >= Capacity
    /\ \E k \in Instruments : rxCnt[k] = 0

\* the documents the pump must drop: no string payload, no JSON, no string
\* "instrument" member, or one that names no registered instrument
Unroutable(doc) ==
    \/ doc.kind \in {"binary", "text", "scalar"}
    \/ doc.inst \notin Instruments

\* C5: the pump's step on an unroutable document sends nothing, leaves every
\* channel and every session as they were, and leaves the pump at
\* get_message for the next document.
C5_DroppedDocChangesNothing ==
    [][pumpPc = "Handling" /\ Unroutable(msg) /\ pumpPc' # pumpPc =>
        /\ UNCHANGED <<pos, buffer, rxCnt, sess, wire, subAt, published>>
        /\ pumpPc' = "Consuming"]_vars

\* the pump holds an unroutable document while a session is subscribed and
\* frames have been sent
C5_Witness ==
    /\ pumpPc = "Handling"
    /\ Unroutable(msg)
    /\ \E s \in Sessions : Streaming(s) /\ Len(Since(s)) > 0

\* C6: the pump task never stops: it is always connecting, subscribing,
\* consuming, handling a message or waiting to retry.
C6_PumpNeverStops ==
    pumpPc \in {"Connecting", "Subscribing", "Consuming", "Handling", "Sleeping"}

\* C7: when the pump has slept after a read error on a broken connection,
\* its next step re-enters Connecting, to re-establish the subscription.
C7_ReconnectsAfterFault ==
    [][pumpPc = "Sleeping" /\ ~connOpen /\ pumpPc' # pumpPc =>
        pumpPc' = "Connecting"]_vars

\* C8: on every channel the frames sent are data frames of documents that
\* name that channel's instrument, in strictly increasing arrival order, and
\* every routable document received so far and handled is among them exactly
\* once; the pump's step on a routable document appends that document's frame
\* to its instrument's channel and to no other; no other step sends anything.
C8_PublishedIsRoutedInOrder ==
    /\ [](/\ \A k \in Instruments :
                \A i \in 1 .. Len(published[k]) :
                    /\ IsData(published[k][i])
                    /\ published[k][i].json.shape = "object"
                    /\ published[k][i].json.inst = k
                    /\ i > 1 => published[k][i - 1].json.seq < published[k][i].json.seq
          /\ UNION {{published[k][i].json.seq : i \in 1 .. Len(published[k])} :
                        k \in Instruments}
                = 1 .. (Len(published["X"]) + Len(published["Y"])))
    /\ [][/\ (pumpPc = "Handling" /\ ~Unroutable(msg) /\ pumpPc' # pumpPc) =>
                published' = [published EXCEPT ![msg.inst] =
                    Append(@, [type |-> "data", lagged |-> 0,
                               json |-> [shape |-> "object", inst |-> msg.inst,
                                         seq |-> msg.seq]])]
          /\ published' # published =>
                pumpPc = "Handling" /\ pumpPc' = "Consuming" /\ UNCHANGED sessVars]_vars

\* documents for X, Y, X arrived in this order and each channel got its own
C8_Witness ==
    /\ Len(published["X"]) = 2
    /\ Len(published["Y"]) = 1
    /\ published["X"][1].json.seq = 1
    /\ published["Y"][1].json.seq = 2
    /\ published["X"][2].json.seq = 3

\* what the next receive of session s would return
NextReceive(s) == RecvRef(sess[s].key, sess[s].next)

C11_RegistryLookup ==
    /\ [](/\ DOMAIN instrument_tx = Instruments
          /\ DOMAIN pos = Instruments
          /\ DOMAIN buffer = Instruments
          /\ DOMAIN rxCnt = Instruments
          /\ \A k \in Instruments : Get(k) = instrument_tx[k]
          /\ \A k1, k2 \in Instruments : k1 # k2 => Get(k1) # Get(k2)
          /\ \A k \in {UnknownInstrument, NoInstrument, NumberInstrument} :
                Get(k) = NoInstrument
          /\ \A s \in Sessions : Streaming(s) => sess[s].key \in Instruments)
    /\ [][\A s \in Sessions, k \in Instruments \cup {UnknownInstrument} :
            SseRequest(s, k) =>
                IF k \in Instruments
                THEN /\ sess'[s] = [st |-> "streaming", key |-> k, next |-> pos[k]]
                     /\ rxCnt' = [rxCnt EXCEPT ![k] = @ + 1]
                ELSE /\ sess'[s].st = "notfound"
                     /\ rxCnt' = rxCnt]_vars

\* one session streams from each registered key's channel, each channel with
\* one receiver, after frames were sent on both
C11_Witness ==
    \E s, t \in Sessions :
        /\ Streaming(s) /\ sess[s].key = "X"
        /\ Streaming(t) /\ sess[t].key = "Y"
        /\ rxCnt = [k \in Instruments |-> 1]
        /\ wire[s] # << >> /\ wire[s][1].json.inst = "X"
        /\ wire[t] # << >> /\ wire[t][1].json.inst = "Y"

\* C12: a stream request for a key the registry does not have answers
\* not-found and changes nothing else: the receiver count of every channel,
\* every channel's contents and every other session are as before; the
\* request is over with that answer: it never receives, writes or changes
\* again.
C12_NotFoundSubscribesNothing ==
    /\ [][\A s \in Sessions :
            SseRequest(s, UnknownInstrument) =>
                /\ sess'[s] = [st |-> "notfound", key |-> NoInstrument, next |-> 0]
                /\ \A t \in Sessions \ {s} : sess'[t] = sess[t]
                /\ UNCHANGED <<rxCnt, pos, buffer, wire, subAt, published, pumpVars>>]_vars
    /\ [][\A s \in Sessions :
            sess[s].st = "notfound" =>
                sess'[s] = sess[s] /\ wire'[s] = wire[s]]_vars
    /\ [](\A s \in Sessions :
            sess[s].st = "notfound" =>
                /\ wire[s] = << >>
                /\ ~ENABLED SseRecv(s)
                /\ ~ENABLED SseDisconnect(s))

\* a request for an unknown key was answered while another session was
\* subscribed and had frames unread: that session is still the only receiver
C12_Witness ==
    \E s, t \in Sessions :
        /\ sess[s].st = "notfound"
        /\ s > t
        /\ Streaming(t)
        /\ Unread(t) > 0
        /\ rxCnt[sess[t].key] = 1
        /\ \A k \in Instruments \ {sess[t].key} : rxCnt[k] = 0

\* the sessions whose receiver is registered with channel k
Subscribers(k) == {s \in Sessions : Streaming(s) /\ sess[s].key = k}

\* C13: in every state the receiver count of each channel is the number of
\* streaming sessions subscribed to it; a streaming session can end at any
\* point, whether its receive is suspended, ready or lagging, and the step
\* in which it ends takes exactly its own receiver off its channel.
C13_CursorsAreLiveSessions ==
    /\ [](/\ \A k \in Instruments : rxCnt[k] = Cardinality(Subscribers(k))
          /\ \A s \in Sessions : Streaming(s) => ENABLED SseDisconnect(s))
    /\ [][\A s \in Sessions :
            Streaming(s) /\ sess'[s].st # "streaming" =>
                /\ sess'[s].st = "ended"
                /\ rxCnt' = [rxCnt EXCEPT ![sess[s].key] = @ - 1]]_vars

\* a session has ended and its channel, which has sent frames, is left with
\* no receiver, while a session of the other channel has overrun its cursor
C13_Witness ==
    \E s, t \in Sessions :
        /\ sess[s].st = "ended"
        /\ Streaming(t)
        /\ EvictedUnread(t) > 0
        /\ rxCnt[sess[t].key] = 1
        /\ \E k \in Instruments : rxCnt[k] = 0 /\ pos[k] > 0

\* C14: every session that is attached to a channel eventually has a
\* heartbeat frame on its wire (or has ended), whether or not any upstream
\* document arrives.
C14_HeartbeatReachesEverySession ==
    \A s \in Sessions :
        [](Streaming(s) =>
            <>(\/ ~Streaming(s)
               \/ \E i \in 1 .. Len(wire[s]) : wire[s][i] = HeartbeatMessage))

\* C15: in no state does the server serve stream requests while the pump
\* has failed to start: once the pump has given up on its connection or its
\* subscription, no session is streaming and no stream request is accepted.
C15_NoServingWithoutPump ==
    pumpPc = "Stopped" =>
        \A s \in Sessions :
            /\ ~Streaming(s)
            /\ \A k \in Instruments \cup {UnknownInstrument} :
                    ~ENABLED SseRequest(s, k)

\* the frames channel k holds for its receivers: the ones in a slot that some
\* receiver of the channel has not passed yet
Backlog(k) ==
    {buffer[k][i].val :
        i \in {j \in 0 .. Capacity - 1 :
                \E s \in Subscribers(k) : sess[s].next <= buffer[k][j].pos}}

\* the one of them that was sent first
Oldest(k) ==
    CHOOSE f \in Backlog(k) : \A g \in Backlog(k) : f.json.seq <= g.json.seq

\* C16: a channel never holds more than `capacity` frames for its receivers,
\* however many there are and however far behind; the pump's send of a frame
\* on a channel that holds `capacity` of them takes out exactly the one sent
\* first and puts in the new one, and below `capacity` it only adds the new
\* one (to a channel with no receiver there is nothing to add it for).
C16_BacklogBounded ==
    /\ [](\A k \in Instruments :
            /\ Cardinality(Backlog(k)) <= Capacity
            /\ NoFrame \notin Backlog(k)
            /\ \A f \in Backlog(k) :
                    \E i \in 1 .. Len(published[k]) : published[k][i] = f)
    /\ [][\A k \in Instruments :
            pumpPc = "Handling" /\ Route(msg) = k /\ pumpPc' = "Consuming" =>
                Backlog(k)' =
                    IF rxCnt[k] = 0
                    THEN {}
                    ELSE IF Cardinality(Backlog(k)) = Capacity
                    THEN (Backlog(k) \ {Oldest(k)}) \cup {SseMessage(FromStr(msg))}
                    ELSE Backlog(k) \cup {SseMessage(FromStr(msg))}]_vars

\* a channel with a receiver that has read everything and one that has read
\* nothing holds `capacity` frames, after a send that took the oldest out
C16_Witness ==
    \E k \in Instruments :
        /\ Cardinality(Backlog(k)) = Capacity
        /\ \E s, t \in Subscribers(k) :
            /\ EvictedUnread(s) > 0
            /\ Unread(t) = 0
            /\ wire[t] # << >>

\* C17: every channel has a live Sender in every state, so no receive of a
\* streaming session returns Closed and no session is ever ended by it: a
\* streaming session stops streaming only in the step of its disconnect.
C17_NeverClosed ==
    /\ [](/\ \A k \in Instruments : TxCnt(k) >= 1
          /\ \A s \in Sessions :
                /\ sess[s].st # "closed"
                /\ Streaming(s) => NextReceive(s).res # "closed")
    /\ [][\A s \in Sessions :
            Streaming(s) /\ sess'[s].st # "streaming" =>
                /\ SseDisconnect(s)
                /\ ~SseRecv(s)]_vars

\* the pump task has returned, and its Senders are gone with it, while a
\* session that has read everything sent to it is suspended in its receive
C17_Witness ==
    /\ pumpPc = "Stopped"
    /\ \E s \in Sessions :
        /\ Streaming(s)
        /\ NextReceive(s).res = "empty"

\* C18: a step of a streaming session that is not its disconnect writes
\* according to what its receive returns and nothing else: for a frame,
\* that frame, unchanged, which is a data frame sent on its channel; for
\* Lagged(n), one lag notification carrying n; for Closed, nothing, and the
\* stream is over. A session's wire changes in no other step (but for the
\* disconnect, which discards it).
C18_OneFramePerResult ==
    /\ [][\A s \in Sessions :
            Streaming(s) /\ sess'[s] # sess[s] /\ sess'[s].st # "ended" =>
                /\ NextReceive(s).res = "ok" =>
                    /\ wire'[s] = Append(wire[s], NextReceive(s).val)
                    /\ NextReceive(s).val = SseMessage(NextReceive(s).val.json)
                    /\ \E i \in 1 .. Len(published[sess[s].key]) :
                            published[sess[s].key][i] = NextReceive(s).val
                    /\ Streaming(s)'
                /\ NextReceive(s).res = "lagged" =>
                    /\ wire'[s] = Append(wire[s], WarnMessage(NextReceive(s).missed))
                    /\ NextReceive(s).missed > 0
                    /\ Streaming(s)'
                /\ NextReceive(s).res = "closed" =>
                    /\ wire'[s] = wire[s]
                    /\ sess'[s].st = "closed"
                /\ NextReceive(s).res # "empty"]_vars
    /\ [][\A s \in Sessions :
            wire'[s] # wire[s] =>
                /\ Streaming(s)
                /\ sess'[s] # sess[s]
                /\ sess'[s].st = "ended" => wire'[s] = << >>]_vars

\* a session's wire holds a notification for two skipped frames and then a
\* frame, the last of the three sent on its channel since it subscribed
C18_Witness ==
    \E s \in Sessions :
        /\ Streaming(s)
        /\ Len(Since(s)) = 3
        /\ Len(wire[s]) = 2
        /\ wire[s][1] = WarnMessage(3 - Capacity)
        /\ wire[s][2] = Since(s)[3 - Capacity + 1]

\* C19: the pump's step on a document that names instrument k leaves every
\* other channel as it was (tail, slots, frames sent), and leaves every
\* session of another channel with the same cursor, the same wire, the same
\* frames ahead of it and the same result waiting for its next receive; and
\* every data frame on a session's wire names the instrument of the
\* session's own channel.
C19_TopicsIsolated ==
    /\ [][\A k \in Instruments :
            pumpPc = "Handling" /\ msg.kind = "object" /\ msg.inst = k
                /\ pumpPc' # pumpPc =>
                    /\ \A j \in Instruments \ {k} :
                            /\ pos'[j] = pos[j]
                            /\ buffer'[j] = buffer[j]
                            /\ rxCnt'[j] = rxCnt[j]
                            /\ published'[j] = published[j]
                    /\ \A s \in Sessions :
                            Streaming(s) /\ sess[s].key # k =>
                                /\ sess'[s] = sess[s]
                                /\ wire'[s] = wire[s]
                                /\ Unread(s)' = Unread(s)
                                /\ NextReceive(s)' = NextReceive(s)]_vars
    /\ [](\A s \in Sessions :
            Streaming(s) =>
                \A i \in 1 .. Len(wire[s]) :
                    IsData(wire[s][i]) => wire[s][i].json.inst = sess[s].key)

\* sessions of two channels, both subscribed before anything was sent: the
\* one has received the frame sent on its channel, the other, on whose
\* channel nothing was sent, has received nothing and has nothing ahead
C19_Witness ==
    \E s, t \in Sessions :
        /\ Streaming(s) /\ Streaming(t)
        /\ sess[s].key # sess[t].key
        /\ subAt[s] = 0 /\ subAt[t] = 0
        /\ Len(published[sess[s].key]) > 0
        /\ wire[s] = published[sess[s].key]
        /\ published[sess[t].key] = << >>
        /\ wire[t] = << >>
        /\ ~ENABLED SseRecv(t)

\* the frames delivered to session s, in the order it wrote them
Delivered(s) == SelectSeq(wire[s], IsData)

\* how many frames sent since s subscribed its channel still holds and s has
\* not been delivered
RetainedUnread(s) ==
    LET since == Since(s)
        got == {wire[s][j] : j \in 1 .. Len(wire[s])}
    IN  Cardinality({f \in Retained(sess[s].key) \ got :
                        \E i \in 1 .. Len(since) : since[i] = f})

\* what s has been delivered, has been told it lost, and can still be
\* delivered
Accounted(s) == Len(Delivered(s)) + LaggedSum(wire[s]) + RetainedUnread(s)

\* the delivered frames are frames sent since the subscribe, in send order:
\* d is found in since from place `from` on, frame by frame
RECURSIVE IsSubsequenceFrom(_, _, _)
IsSubsequenceFrom(d, since, from) ==
    IF d = << >> THEN TRUE
    ELSE IF from > Len(since) THEN FALSE
    ELSE IF since[from] = Head(d)
    THEN IsSubsequenceFrom(Tail(d), since, from + 1)
    ELSE IsSubsequenceFrom(d, since, from + 1)

DeliveredInSendOrder(s) == IsSubsequenceFrom(Delivered(s), Since(s), 1)

\* C20 as stated: in every state, for every subscribed session, delivered +
\* lagged counts + retained unread is the number of frames sent on its
\* channel since it subscribed, and the delivered ones are in send order.
C20_LagAccountingExact ==
    \A s \in Sessions :
        Streaming(s) =>
            /\ Accounted(s) = Len(Since(s))
            /\ DeliveredInSendOrder(s)

\* C20, amended: the frames a session has overrun are counted only by its
\* next receive. In every state delivered + lagged counts + retained unread
\* is the number of frames sent since the subscribe less the count that the
\* session's next receive will report, if that is a Lagged; right after each
\* of its receives, and whenever none is pending, the sum is exactly the
\* number sent. The delivered frames are in send order.
C20_LagAccountingAtReceive ==
    /\ [](\A s \in Sessions :
            Streaming(s) =>
                /\ Accounted(s) + (IF NextReceive(s).res = "lagged"
                                   THEN NextReceive(s).missed ELSE 0)
                        = Len(Since(s))
                /\ DeliveredInSendOrder(s))
    /\ [][\A s \in Sessions :
            Received(s) => Accounted(s)' = Len(Since(s))']_vars

\* a session has been delivered the first frame sent to it and has let
\* `capacity` + 1 more pass since: one of them is gone and no receive has
\* reported it yet
C20_Witness ==
    \E s \in Sessions :
        /\ Streaming(s)
        /\ Len(Since(s)) = Capacity + 2
        /\ wire[s] = <<Since(s)[1]>>
        /\ RetainedUnread(s) = Capacity
        /\ EvictedUnread(s) = 1
        /\ Accounted(s) < Len(Since(s))

====
